---- MODULE Spec2Model ----
(***************************************************************************)
(* Model of the MCP client of mcp-demo: the capability registry kept by    *)
(* ServerConnection, the LLM-backed advisor (LLMClient), schema coercion   *)
(* (jsonSchemaToZod) and the query resolution pipeline                     *)
(* (QueryProcessor.processQuery).                                          *)
(*                                                                         *)
(* Strings are sequences of symbols (a symbol is a run of characters that  *)
(* the code never splits: a name, a word, one backtick, one blank).  The   *)
(* empty string is << >>.  JSON values are records tagged by "type".       *)
(***************************************************************************)
EXTENDS Integers, Sequences, FiniteSets, TLC

(***************************************************************************)
(* Bounds of the model and constants of the program                        *)
(***************************************************************************)
\* number of processQuery calls explored in one behaviour
MaxRuns == 2

\* queryProcessor.ts:255  Math.min(serverInfo.load + 1.0, 100.0)
MaxLoad == 100

(***************************************************************************)
(* Text                                                                    *)
(***************************************************************************)
WS == {" ", "\n"}

\* the symbol of one backtick character
BT == "bt"

RECURSIVE TrimStart(_)
TrimStart(s) ==
  IF s # << >> /\ Head(s) \in WS THEN TrimStart(Tail(s)) ELSE s

RECURSIVE TrimEnd(_)
TrimEnd(s) ==
  IF s # << >> /\ s[Len(s)] \in WS THEN TrimEnd(SubSeq(s, 1, Len(s) - 1)) ELSE s

\* String.prototype.trim
Trim(s) == TrimEnd(TrimStart(s))

\* s.includes(t)
Includes(s, t) ==
  \E i \in 1..(Len(s) - Len(t) + 1) : SubSeq(s, i, i + Len(t) - 1) = t

\* the replacement text of String.prototype.replace: the symbol "$$" stands
\* for one dollar sign and the symbol "$&" for the matched text
RECURSIVE Expand(_, _)
Expand(by, matched) ==
  IF by = << >> THEN << >>
  ELSE (CASE Head(by) = "$$" -> <<"$">>
          [] Head(by) = "$&" -> matched
          [] OTHER -> <<Head(by)>>) \o Expand(Tail(by), matched)

\* String.prototype.replace(pat, by) with a string pattern: only the first
\* occurrence is replaced
ReplaceFirst(s, pat, by) ==
  IF Includes(s, pat)
  THEN LET at(k) == SubSeq(s, k, k + Len(pat) - 1) = pat
           i == CHOOSE k \in 1..(Len(s) - Len(pat) + 1) :
                  at(k) /\ \A j \in 1..(k - 1) : ~at(j)
       IN  SubSeq(s, 1, i - 1) \o Expand(by, pat) \o SubSeq(s, i + Len(pat), Len(s))
  ELSE s

\* Array.prototype.join
RECURSIVE Join(_, _)
Join(parts, sep) ==
  IF parts = << >> THEN << >>
  ELSE IF Len(parts) = 1 THEN parts[1]
  ELSE parts[1] \o sep \o Join(Tail(parts), sep)

\* index of the first symbol at or after i that is not white space
RECURSIVE SkipWS(_, _)
SkipWS(s, i) == IF i <= Len(s) /\ s[i] \in WS THEN SkipWS(s, i + 1) ELSE i

\* three backticks start at position i
FenceAt(s, i) == i + 2 <= Len(s) /\ s[i] = BT /\ s[i + 1] = BT /\ s[i + 2] = BT

\* the scan of rawResponse.replace(re, "") where re is the global pattern
\* with three alternatives: fence followed by json and any white space;
\* any white space followed by a fence; a fence.  At each position the
\* alternatives are tried in order; a match is dropped and the scan resumes
\* after it, otherwise the symbol is kept
RECURSIVE StripFences(_, _)
StripFences(s, i) ==
  IF i > Len(s) THEN << >>
  ELSE IF FenceAt(s, i) /\ i + 3 <= Len(s) /\ s[i + 3] = "json"
       THEN StripFences(s, SkipWS(s, i + 4))
  ELSE IF FenceAt(s, SkipWS(s, i))
       THEN StripFences(s, SkipWS(s, i) + 3)
  ELSE <<s[i]>> \o StripFences(s, i + 1)

cleanMarkdownJson(rawResponse) == Trim(StripFences(rawResponse, 1))

(***************************************************************************)
(* JSON values                                                             *)
(***************************************************************************)
Undefined == [type |-> "undefined"]
JNull == [type |-> "null"]
JStr(s) == [type |-> "string", str |-> s]
JNum(n) == [type |-> "number", num |-> n]
JBool(b) == [type |-> "boolean", bool |-> b]
JArr(a) == [type |-> "array", arr |-> a]
JObj(f) == [type |-> "object", obj |-> f]

EmptyMap == [k \in {} |-> Undefined]
EmptyObj == JObj(EmptyMap)

\* x ? false : true of JavaScript
Falsy(v) ==
  \/ v.type \in {"undefined", "null"}
  \/ v.type = "string" /\ v.str = << >>
  \/ v.type = "number" /\ v.num = 0
  \/ v.type = "boolean" /\ ~v.bool

\* v[key] (v is not null or undefined)
Get(v, key) ==
  IF v.type = "object" /\ key \in DOMAIN v.obj THEN v.obj[key] ELSE Undefined

\* Object.keys(v)
Keys(v) ==
  CASE v.type = "object" -> DOMAIN v.obj
    [] v.type = "string" -> 1..Len(v.str)
    [] v.type = "array" -> 1..Len(v.arr)
    [] OTHER -> {}

\* key in v raises a TypeError unless v is an object
IsObjectLike(v) == v.type \in {"object", "array"}

\* key in v, for v an object
HasKey(v, key) == v.type = "object" /\ key \in DOMAIN v.obj

\* v === ""
IsEmptyString(v) == v.type = "string" /\ v.str = << >>

(***************************************************************************)
(* Schema coercion: jsonSchemaToZod and the validator it builds            *)
(***************************************************************************)
\* a JSON schema as the code reads it: type, properties (when present),
\* required (when present), additionalProperties === false
ObjectSchema(props, req, closed) ==
  [type |-> "object", hasProperties |-> TRUE, properties |-> props,
   hasRequired |-> TRUE, required |-> req, additionalProperties |-> ~closed]

\* the {} that connectToServer stores for a tool without inputSchema
BlankSchema ==
  [type |-> "undefined", hasProperties |-> FALSE, properties |-> EmptyMap,
   hasRequired |-> FALSE, required |-> << >>, additionalProperties |-> TRUE]

Prop(t) == [type |-> t, minLength |-> 0]
PropMin(t, n) == [type |-> t, minLength |-> n]

\* required?.includes(key)
IsRequired(jsonSchema, key) ==
  jsonSchema.hasRequired /\ \E i \in 1..Len(jsonSchema.required) : jsonSchema.required[i] = key

\* the switch on propSchema.type: z.string() (with .min), z.number(), z.any()
ZodFieldAccepts(propSchema, v) ==
  CASE propSchema.type = "string" ->
         /\ v.type = "string"
         /\ (propSchema.minLength # 0 => Len(v.str) >= propSchema.minLength)
    [] propSchema.type = "number" -> v.type = "number"
    [] OTHER -> TRUE

\* shape[key]: the field itself when required, field.optional() otherwise
ShapeAccepts(jsonSchema, key, v) ==
  IF IsRequired(jsonSchema, key)
  THEN ZodFieldAccepts(jsonSchema.properties[key], v)
  ELSE v.type = "undefined" \/ ZodFieldAccepts(jsonSchema.properties[key], v)

\* jsonSchemaToZod returns z.object(shape) (strict or not) in this case and
\* z.any() in every other
BuildsObject(jsonSchema) == jsonSchema.type = "object" /\ jsonSchema.hasProperties

\* jsonSchemaToZod(jsonSchema).parse(v) does not throw
ZodAccepts(jsonSchema, v) ==
  IF BuildsObject(jsonSchema)
  THEN /\ v.type = "object"
       /\ \A key \in DOMAIN jsonSchema.properties : ShapeAccepts(jsonSchema, key, Get(v, key))
       /\ (~jsonSchema.additionalProperties => DOMAIN v.obj \subseteq DOMAIN jsonSchema.properties)
  ELSE TRUE

\* the value parse returns: z.object keeps the keys of the shape and drops
\* the others; z.any() returns its input
ZodOutput(jsonSchema, v) ==
  IF BuildsObject(jsonSchema)
  THEN JObj([key \in DOMAIN v.obj \cap DOMAIN jsonSchema.properties |-> v.obj[key]])
  ELSE v

\* jsonSchemaToZod(jsonSchema).parse(v): the parsed value, or a ZodError
jsonSchemaToZod(jsonSchema, v) ==
  IF ZodAccepts(jsonSchema, v)
  THEN [ok |-> TRUE, value |-> ZodOutput(jsonSchema, v)]
  ELSE [ok |-> FALSE, value |-> Undefined]

(***************************************************************************)
(* The servers of the configuration and what they expose                   *)
(***************************************************************************)
DB == <<"db">>
UTIL == <<"util">>
Servers == {DB, UTIL}

DATABASE == <<"database">>
TABLE == <<"table">>
FLAG == <<"flag">>
EXTRA == <<"extra">>
QUERY == <<"query">>

GET_TABLE_SCHEMA == <<"get_table_schema">>
TOGGLE == <<"toggle">>
PING == <<"ping">>
GHOST == <<"ghost">>
RUN_QUERY == <<"run_query">>

\* zodToJsonSchema(TableInfoArgsSchema): two required strings, closed
TableInfoSchema ==
  ObjectSchema((DATABASE :> Prop("string")) @@ (TABLE :> Prop("string")),
               <<DATABASE, TABLE>>, TRUE)

\* an open schema with one required field of a type other than string/number
ToggleSchema == ObjectSchema(FLAG :> Prop("boolean"), <<FLAG>>, FALSE)

\* the raw answers of listTools, listResources, listPrompts and getPrompt
ListTools(serverName) ==
  IF serverName = DB
  THEN <<[name |-> GET_TABLE_SCHEMA, hasInputSchema |-> TRUE, inputSchema |-> TableInfoSchema]>>
  ELSE <<[name |-> TOGGLE, hasInputSchema |-> TRUE, inputSchema |-> ToggleSchema],
         [name |-> PING, hasInputSchema |-> FALSE, inputSchema |-> BlankSchema]>>

ListResources(serverName) ==
  IF serverName = DB THEN <<[uri |-> <<"mysql://tables">>]>> ELSE << >>

ListPrompts(serverName) ==
  IF serverName = DB
  THEN <<[name |-> RUN_QUERY, arguments |-> <<[name |-> QUERY, required |-> TRUE]>>]>>
  ELSE << >>

GetPrompt(serverName, promptName) ==
  [messages |->
     <<[role |-> "user", type |-> "text", text |-> <<"Run ", "{{", "query", "}}", " now">>],
       [role |-> "user", type |-> "image", text |-> << >>]>>]

(***************************************************************************)
(* State                                                                   *)
(***************************************************************************)
VARIABLES
  preference,   \* LLMClient.preference
  clients,      \* ServerConnection.clients: the names that have a session
  serverInfo,   \* ServerConnection.serverInfo: name -> capabilities
  pc,           \* where the command loop / processQuery is suspended
  run,          \* the locals of the processQuery call in progress
  calls,        \* the external calls made by this processQuery call, in order
  result,       \* how the processQuery call ended
  before,       \* serverInfo when this processQuery call started
  runs,         \* processQuery calls so far
  probe,        \* the arguments of a function applied on its own
  out,          \* what the function returned
  flights       \* the locals of processQuery calls that are in flight together

vars ==
  <<preference, clients, serverInfo, pc, run, calls, result, before, runs, probe, out, flights>>

\* a local that has not been assigned yet
Unset == [type |-> "unset"]

\* raised names the LLMClient operation whose completion raised in this
\* call, rawResponse is what selectTool read from its completion,
\* selectedPromptName what selectPrompt returned and args what
\* extractPromptArguments returned
NoRun ==
  [query |-> << >>, selectedServer |-> << >>, promptName |-> << >>,
   toolName |-> Unset, validatedArguments |-> Unset, rawResult |-> Unset,
   raised |-> "none", rawResponse |-> Unset,
   selectedPromptName |-> Unset, args |-> Unset]

\* the locals once the completion of the operation has answered or raised
Resumed(r, op, resp) == [r EXCEPT !.raised = IF resp.raises THEN op ELSE @]
NoProbe == [fn |-> "none"]
NoResult == [kind |-> "none", text |-> << >>]

\* the state after new MCPClient(): both maps are empty
Init ==
  /\ preference \in {"openai", "anthropic"}
  /\ clients = {}
  /\ serverInfo = [n \in {} |-> 0]
  /\ pc = "idle"
  /\ run = NoRun
  /\ calls = << >>
  /\ result = NoResult
  /\ before = [n \in {} |-> 0]
  /\ runs = 0
  /\ probe = NoProbe
  /\ out = NoProbe
  /\ flights = << >>

(***************************************************************************)
(* ServerConnection                                                        *)
(***************************************************************************)
\* m without key k (Map.prototype.delete)
MapDelete(m, k) == [n \in DOMAIN m \ {k} |-> m[n]]

\* Map.prototype.set
MapSet(m, k, v) == [n \in DOMAIN m \cup {k} |-> IF n = k THEN v ELSE m[n]]

\* the stored form of a getPrompt message (chatLoop.ts 202-207)
StoredMessage(msg) ==
  [role |-> msg.role,
   text |-> IF msg.type = "text" /\ msg.text # << >>
            THEN msg.text
            ELSE <<"[Unsupported content type: ", msg.type, "]">>]

\* the entry connectToServer stores when every discovery call succeeded
Discovered(serverName, latency) ==
  LET tools == [i \in DOMAIN ListTools(serverName) |->
                  [name |-> ListTools(serverName)[i].name,
                   inputSchema |-> IF ListTools(serverName)[i].hasInputSchema
                                   THEN ListTools(serverName)[i].inputSchema
                                   ELSE BlankSchema]]
      prompts == ListPrompts(serverName)
      names == {prompts[i].name : i \in DOMAIN prompts}
  IN  [tools |-> tools,
       resources |-> ListResources(serverName),
       prompts |-> prompts,
       promptTemplates |->
         [pn \in names |->
            [messages |-> [i \in DOMAIN GetPrompt(serverName, pn).messages |->
                             StoredMessage(GetPrompt(serverName, pn).messages[i])]]],
       latency |-> latency,
       load |-> 0]

\* the steps of connectToServer that can throw
ConnectSteps(serverName) ==
  {"connect", "listTools", "listResources", "listPrompts"}
    \cup (IF ListPrompts(serverName) # << >> THEN {"getPrompt"} ELSE {})

\* ConnectToServerFails registering the server with the prompt bodies
\* fetched so far when getPrompt throws
ConnectToServerFailsKeepsServer(serverName, step) ==
  /\ pc = "idle"
  /\ step \in ConnectSteps(serverName)
  /\ IF step = "getPrompt"
     THEN /\ clients' = clients \cup {serverName}
          /\ serverInfo' = MapSet(serverInfo, serverName,
                                  [Discovered(serverName, 0) EXCEPT
                                     !.promptTemplates = [pn \in {} |-> [messages |-> << >>]]])
     ELSE /\ clients' = clients \ {serverName}
          /\ serverInfo' = MapDelete(serverInfo, serverName)
  /\ UNCHANGED <<preference, pc, run, calls, result, before, runs, probe, out, flights>>

\* connectToServer when client.connect or a discovery call throws
ConnectToServerFails(serverName, step) ==
  /\ pc = "idle"
  /\ step \in ConnectSteps(serverName)
  /\ clients' = clients \ {serverName}
  /\ serverInfo' = MapDelete(serverInfo, serverName)
  /\ UNCHANGED <<preference, pc, run, calls, result, before, runs, probe, out, flights>>

\* connectToServer when nothing throws
ConnectToServerSucceeds(serverName, latency) ==
  /\ pc = "idle"
  /\ clients' = clients \cup {serverName}
  /\ serverInfo' = MapSet(serverInfo, serverName, Discovered(serverName, latency))
  /\ UNCHANGED <<preference, pc, run, calls, result, before, runs, probe, out, flights>>

\* cleanup: every client is closed and deleted from clients
Cleanup ==
  /\ pc = "idle"
  /\ clients # {}
  /\ clients' = {}
  /\ UNCHANGED <<preference, serverInfo, pc, run, calls, result, before, runs, probe, out, flights>>

\* getSession
getSession(serverName) == serverName \in clients

(***************************************************************************)
(* The language model: responses and what the code reads from them         *)
(***************************************************************************)
\* a completion either raises or answers; openai reads
\* choices[0].message.content (which may be null), anthropic reads
\* content[0].type
Answer(content) ==
  [raises |-> FALSE, hasContent |-> TRUE, content |-> content, blockType |-> <<"text">>]
NullAnswer ==
  [raises |-> FALSE, hasContent |-> FALSE, content |-> << >>, blockType |-> <<"text">>]
Raises ==
  [raises |-> TRUE, hasContent |-> FALSE, content |-> << >>, blockType |-> <<"text">>]

\* content?.trim() || "None" for openai, content[0].type.trim() for anthropic
TrimmedAnswer(pref, resp) ==
  IF pref = "openai"
  THEN IF resp.hasContent /\ Trim(resp.content) # << >> THEN Trim(resp.content) ELSE <<"None">>
  ELSE Trim(resp.blockType)

\* content || "None" for openai, content[0].type for anthropic
RawAnswer(pref, resp) ==
  IF pref = "openai"
  THEN IF resp.hasContent /\ resp.content # << >> THEN resp.content ELSE <<"None">>
  ELSE resp.blockType

\* errors
Error(class, message) == [class |-> class, message |-> message]
LLMError == Error("Error", <<"Connection error.">>)
ToolError == Error("Error", <<"MCP error -32603: tool failed">>)
PermissionDenied == Error("Error", <<"MCP error -32600: Permission denied: Admin role required">>)
ExecutionError(name) ==
  Error("Error", <<"MCP error -32603: Error executing tool ">> \o name \o <<": failed">>)
JSONSyntaxError == Error("SyntaxError", <<"Unexpected token in ", "JSON", " at position 0">>)
NullTypeError == Error("TypeError", <<"Cannot read properties of null">>)
ZodError == Error("ZodError", <<"[ { \"code\": \"invalid_type\" } ]">>)

(***************************************************************************)
(* The JSON documents the language model may answer with                   *)
(***************************************************************************)
ArgsFull == JObj((DATABASE :> JStr(<<"m">>)) @@ (TABLE :> JStr(<<"u">>)))
ArgsNoTable == JObj(DATABASE :> JStr(<<"m">>))
ArgsEmptyTable == JObj((DATABASE :> JStr(<<"m">>)) @@ (TABLE :> JStr(<< >>)))
ArgsFlagExtra == JObj((FLAG :> JBool(TRUE)) @@ (EXTRA :> JNum(1)))
ArgsExtraOnly == JObj(EXTRA :> JNum(1))
ArgsFullExtra ==
  JObj((DATABASE :> JStr(<<"m">>)) @@ (TABLE :> JStr(<<"u">>)) @@ (EXTRA :> JNum(1)))

ToolCall(name, args) == JObj((<<"tool_name">> :> JStr(name)) @@ (<<"arguments">> :> args))
ToolCallNoArgs(name) == JObj(<<"tool_name">> :> JStr(name))

\* the text of a document (one symbol) and the value JSON.parse gives it
Docs ==
  ("{schema,full}" :> ToolCall(GET_TABLE_SCHEMA, ArgsFull)) @@
  ("{schema,notable}" :> ToolCall(GET_TABLE_SCHEMA, ArgsNoTable)) @@
  ("{schema,emptytable}" :> ToolCall(GET_TABLE_SCHEMA, ArgsEmptyTable)) @@
  ("{schema,fullextra}" :> ToolCall(GET_TABLE_SCHEMA, ArgsFullExtra)) @@
  ("{schema}" :> ToolCallNoArgs(GET_TABLE_SCHEMA)) @@
  ("{ghost,full}" :> ToolCall(GHOST, ArgsFull)) @@
  ("{ghost}" :> ToolCallNoArgs(GHOST)) @@
  ("{toggle,flagextra}" :> ToolCall(TOGGLE, ArgsFlagExtra)) @@
  ("{toggle,extra}" :> ToolCall(TOGGLE, ArgsExtraOnly)) @@
  ("{toggle}" :> ToolCallNoArgs(TOGGLE)) @@
  ("{ping,{}}" :> ToolCall(PING, EmptyObj)) @@
  ("{ping,extra}" :> ToolCall(PING, ArgsExtraOnly)) @@
  ("{args}" :> JObj(<<"arguments">> :> ArgsFull)) @@
  ("null" :> JNull) @@
  ("{full}" :> ArgsFull) @@
  ("{notable}" :> ArgsNoTable) @@
  ("{emptytable}" :> ArgsEmptyTable) @@
  ("{flagextra}" :> ArgsFlagExtra) @@
  ("{extra}" :> ArgsExtraOnly) @@
  ("{fullextra}" :> ArgsFullExtra) @@
  ("{}" :> EmptyObj) @@
  ("{query:s}" :> JObj(QUERY :> JStr(<<"SELECT 1">>))) @@
  ("{query:}" :> JObj(QUERY :> JStr(<< >>)))

\* JSON.parse
JSONParse(text) ==
  IF Len(text) = 1 /\ text[1] \in DOMAIN Docs
  THEN [ok |-> TRUE, value |-> Docs[text[1]]]
  ELSE [ok |-> FALSE, value |-> Undefined]

\* a document as the model writes it when it wraps it in a fence
Fenced(doc) == <<BT, BT, BT, "json", "\n", doc, "\n", BT, BT, BT>>

\* the order in which objects list their keys
KeyOrder == <<DATABASE, TABLE, FLAG, EXTRA, QUERY>>

\* Object.entries(v)
Entries(v) ==
  IF v.type = "object"
  THEN LET ks == SelectSeq(KeyOrder, LAMBDA k : k \in DOMAIN v.obj)
       IN  [i \in DOMAIN ks |-> [name |-> ks[i], value |-> v.obj[ks[i]]]]
  ELSE << >>

\* String(v)
String(v) ==
  CASE v.type = "string" -> v.str
    [] v.type = "number" -> <<ToString(v.num)>>
    [] v.type = "boolean" -> IF v.bool THEN <<"true">> ELSE <<"false">>
    [] v.type = "null" -> <<"null">>
    [] v.type = "undefined" -> <<"undefined">>
    [] OTHER -> <<"[object Object]">>

(***************************************************************************)
(* LLMClient: what each operation makes of the completion's response       *)
(***************************************************************************)
Ok(v) == [ok |-> TRUE, value |-> v, error |-> Error("none", << >>)]
Throw(e) == [ok |-> FALSE, value |-> Undefined, error |-> e]
Null == [found |-> FALSE, name |-> << >>]
Found(n) == [found |-> TRUE, name |-> n]

\* selectServer without the lookup of the answer in the registry
selectServerUnchecked(pref, resp, info) ==
  IF resp.raises THEN Ok(Null)
  ELSE LET selectedServer == TrimmedAnswer(pref, resp)
       IN  IF selectedServer = <<"None">> THEN Ok(Null) ELSE Ok(Found(selectedServer))

\* selectServer: its whole body is in a try whose catch returns null; null
\* also when the answer is "None" or no key of the registry
selectServer(pref, resp, info) ==
  IF resp.raises THEN Ok(Null)
  ELSE LET selectedServer == TrimmedAnswer(pref, resp)
       IN  IF selectedServer = <<"None">> \/ selectedServer \notin DOMAIN info
           THEN Ok(Null)
           ELSE Ok(Found(selectedServer))

\* selectPrompt after its completion: the call is not guarded, so an error
\* of the completion is thrown to the caller
selectPrompt(pref, resp) ==
  IF resp.raises THEN Throw(LLMError)
  ELSE LET selectedPromptName == TrimmedAnswer(pref, resp)
       IN  IF selectedPromptName = <<"None">> THEN Ok(Null) ELSE Ok(Found(selectedPromptName))

\* extractPromptArguments with JSON.parse outside the try
extractPromptArgumentsUnguarded(pref, resp, promptArgs) ==
  IF resp.raises THEN Throw(LLMError)
  ELSE LET parsed == JSONParse(cleanMarkdownJson(RawAnswer(pref, resp)))
       IN  IF parsed.ok THEN Ok(parsed.value) ELSE Throw(JSONSyntaxError)

\* extractPromptArguments after its completion
extractPromptArguments(pref, resp, promptArgs) ==
  IF resp.raises THEN Throw(LLMError)
  ELSE LET cleanedResponse == cleanMarkdownJson(RawAnswer(pref, resp))
           parsed == JSONParse(cleanedResponse)
       IN  IF parsed.ok THEN Ok(parsed.value)
           ELSE Ok(JObj([n \in {promptArgs[i].name : i \in DOMAIN promptArgs} |-> JStr(<< >>)]))

\* extractToolArguments returns {} without a completion in this case
NoProperties(tool) == DOMAIN tool.inputSchema.properties = {}

\* extractToolArguments returning the parsed object whenever every
\* required field is a key of it
extractToolArgumentsKeysOnly(pref, resp, tool) ==
  IF resp.raises THEN Throw(LLMError)
  ELSE LET properties == tool.inputSchema.properties
           required == tool.inputSchema.required
           parsed == JSONParse(cleanMarkdownJson(RawAnswer(pref, resp)))
           args == parsed.value
           allEmpty == JObj([prop \in DOMAIN properties |-> JStr(<< >>)])
       IN  IF ~parsed.ok THEN Ok(allEmpty)
           ELSE IF required = << >> THEN Ok(args)
           ELSE IF ~IsObjectLike(args) THEN Ok(allEmpty)
           ELSE IF \E i \in DOMAIN required : ~HasKey(args, required[i])
                THEN Ok(EmptyObj)
                ELSE Ok(args)

\* extractToolArguments after its completion
extractToolArguments(pref, resp, tool) ==
  IF resp.raises THEN Throw(LLMError)
  ELSE LET properties == tool.inputSchema.properties
           required == tool.inputSchema.required
           cleanedResponse == cleanMarkdownJson(RawAnswer(pref, resp))
           parsed == JSONParse(cleanedResponse)
           args == parsed.value
           allEmpty == JObj([prop \in DOMAIN properties |-> JStr(<< >>)])
       IN  IF ~parsed.ok THEN Ok(allEmpty)
           ELSE IF required = << >> THEN Ok(args)
           ELSE IF ~IsObjectLike(args) THEN Ok(allEmpty)
           ELSE IF \E i \in DOMAIN required :
                     \/ ~HasKey(args, required[i])
                     \/ IsEmptyString(Get(args, required[i]))
                THEN Ok(EmptyObj)
                ELSE Ok(args)

\* selectTool answering with an empty tool call when JSON.parse fails
selectToolDefaulting(pref, resp) ==
  IF resp.raises THEN Throw(LLMError)
  ELSE LET parsed == JSONParse(cleanMarkdownJson(RawAnswer(pref, resp)))
       IN  IF parsed.ok THEN Ok(parsed.value) ELSE Ok(EmptyObj)

\* selectTool after its completion: JSON.parse is not guarded
selectTool(pref, resp) ==
  IF resp.raises THEN Throw(LLMError)
  ELSE LET cleanedResponse == cleanMarkdownJson(RawAnswer(pref, resp))
           parsed == JSONParse(cleanedResponse)
       IN  IF parsed.ok THEN Ok(parsed.value) ELSE Throw(JSONSyntaxError)

(***************************************************************************)
(* QueryProcessor                                                          *)
(***************************************************************************)
Returned(text) == [kind |-> "returned", text |-> text]
Escaped(e) == [kind |-> "raised", text |-> e.message]

\* Catch with the final else branch rethrowing instead of returning
CatchRethrowsOthers(error) ==
  IF error.class = "SyntaxError" /\ Includes(error.message, <<"JSON">>)
  THEN Returned(<<"Failed to process query: ", "LLM response is not valid JSON.">>)
  ELSE IF error.class = "ZodError"
  THEN Returned(<<"Failed to process query: ", "Invalid arguments - ">> \o error.message)
  ELSE Escaped(error)

\* the catch block of processQuery
Catch(error) ==
  IF error.class = "SyntaxError" /\ Includes(error.message, <<"JSON">>)
  THEN Returned(<<"Failed to process query: ", "LLM response is not valid JSON.">>)
  ELSE IF error.class = "ZodError"
  THEN Returned(<<"Failed to process query: ", "Invalid arguments - ">> \o error.message)
  ELSE Returned(<<"Failed to process query: ">> \o error.message)

\* query.replace("excute", "execute")
CorrectedQuery(query) == ReplaceFirst(query, <<"excute">>, <<"execute">>)

\* FindTool falling back to the first tool when the name is unknown
FindToolOrFirst(tools, toolName) ==
  IF toolName.type = "string" /\ \E i \in DOMAIN tools : tools[i].name = toolName.str
  THEN CHOOSE i \in DOMAIN tools :
         tools[i].name = toolName.str /\ \A j \in 1..(i - 1) : tools[j].name # toolName.str
  ELSE 1

\* tools.find((t) => t.name === toolName): its index, 0 when there is none
FindTool(tools, toolName) ==
  IF toolName.type = "string" /\ \E i \in DOMAIN tools : tools[i].name = toolName.str
  THEN CHOOSE i \in DOMAIN tools :
         tools[i].name = toolName.str /\ \A j \in 1..(i - 1) : tools[j].name # toolName.str
  ELSE 0

\* the loop over Object.entries(args) that fills one message
RECURSIVE FillContent(_, _)
FillContent(content, entries) ==
  IF entries = << >> THEN content
  ELSE LET placeholder == <<"{{">> \o Head(entries).name \o <<"}}">>
           argValue == Head(entries).value
           value == IF IsEmptyString(argValue) THEN <<"N/A">> ELSE String(argValue)
       IN  FillContent(ReplaceFirst(content, placeholder, value), Tail(entries))

\* filledMessages of selectPromptAndFill
FilledMessages(promptTemplate, args) ==
  [i \in DOMAIN promptTemplate.messages |->
     [role |-> promptTemplate.messages[i].role,
      content |-> FillContent(promptTemplate.messages[i].text, Entries(args))]]

\* UserMessage taking the content of the first message only
UserMessageFirstOnly(messages) == IF messages = << >> THEN << >> ELSE messages[1].content

\* promptInfo.messages.map((msg) => msg.content).join("\n")
UserMessage(messages) == Join([i \in DOMAIN messages |-> messages[i].content], <<"\n">>)

\* JSON.stringify(v, null, 2) at the given indentation
RECURSIVE Stringify(_, _)
Stringify(v, indent) ==
  CASE v.type = "string" -> <<"\"">> \o v.str \o <<"\"">>
    [] v.type = "number" -> <<ToString(v.num)>>
    [] v.type = "boolean" -> IF v.bool THEN <<"true">> ELSE <<"false">>
    [] v.type = "object" ->
         IF DOMAIN v.obj = {} THEN <<"{}">>
         ELSE LET es == Entries(v)
                  line(i) == indent \o <<"  ", "\"">> \o es[i].name \o <<"\"", ": ">>
                               \o Stringify(es[i].value, indent \o <<"  ">>)
              IN  <<"{", "\n">> \o Join([i \in DOMAIN es |-> line(i)], <<",", "\n">>)
                    \o <<"\n">> \o indent \o <<"}">>
    [] OTHER -> <<"null">>

\* the result of callTool: a content list (or none) of items
Content(items) == [hasContent |-> TRUE, items |-> items]
NoContent == [hasContent |-> FALSE, items |-> << >>]
TextItem(text) == [type |-> "text", data |-> Undefined, text |-> text]
JsonItem(data) == [type |-> "json", data |-> data, text |-> << >>]
ImageItem == [type |-> "image", data |-> Undefined, text |-> << >>]

\* lines 241-253: the text of the first content item
ResultText(rawResult) ==
  IF rawResult.hasContent /\ Len(rawResult.items) > 0
  THEN LET firstItem == rawResult.items[1]
       IN  IF firstItem.type = "json" /\ ~Falsy(firstItem.data)
           THEN Stringify(firstItem.data, << >>)
           ELSE IF firstItem.type = "text" /\ firstItem.text # << >>
           THEN firstItem.text
           ELSE <<"Unsupported content type: ", firstItem.type>>
  ELSE <<"No content returned from tool.">>

\* NextLoad without the clamp
NextLoadUnclamped(load) == load + 1

\* Math.min(serverInfo.load + 1.0, 100.0)
NextLoad(load) == IF load + 1 < MaxLoad THEN load + 1 ELSE MaxLoad

(***************************************************************************)
(* processQuery, one action per resumption from an await                   *)
(***************************************************************************)
Complete(op) == [op |-> "complete", for |-> op]
CompleteWith(op, message) == [op |-> "complete", for |-> op, message |-> message]
Validate(schema, args, ok) == [op |-> "validate", schema |-> schema, arguments |-> args, ok |-> ok]
CallTool(server, name, args) == [op |-> "callTool", server |-> server, name |-> name, arguments |-> args]
ExtractToolArguments(tool, query) == [op |-> "extractToolArguments", tool |-> tool, query |-> query]

\* processQuery returns (or lets an error escape) after making these calls
Return(r, events, res) ==
  /\ pc' = "done"
  /\ run' = r
  /\ result' = res
  /\ calls' = calls \o events

\* processQuery is suspended at the await of the last of these calls
Await(p, r, events) ==
  /\ pc' = p
  /\ run' = r
  /\ calls' = calls \o events
  /\ UNCHANGED result

\* lines 199: selectTool is called with the effective message
AwaitSelectTool(r, userMessage) ==
  Await("selectTool", r, <<CompleteWith("selectTool", userMessage)>>)

\* Invoke handing callTool the arguments as given instead of the parsed ones
InvokeUnparsed(r, toolName, toolArguments, events) ==
  LET tools == serverInfo[r.selectedServer].tools
      found == FindTool(tools, toolName)
      schema == tools[found].inputSchema
      parsed == jsonSchemaToZod(schema, toolArguments)
      rr == [r EXCEPT !.toolName = toolName, !.validatedArguments = toolArguments]
  IN  IF Falsy(toolArguments) \/ Keys(toolArguments) = {}
      THEN Return(rr, events, Catch(Error("Error",
               <<"Invalid or missing arguments", " for tool: ">> \o String(toolName))))
      ELSE IF found = 0
      THEN Return(rr, events, Catch(Error("Error",
               <<"Schema for tool ">> \o String(toolName) \o <<" not found.">>)))
      ELSE IF ~parsed.ok
      THEN Return(rr, events \o <<Validate(schema, toolArguments, FALSE)>>, Catch(ZodError))
      ELSE Await("callTool", rr,
                 events \o <<Validate(schema, toolArguments, TRUE),
                   CallTool(r.selectedServer, toolName, toolArguments)>>)

\* Invoke without the check that the argument map is not empty
InvokeNoEmptyCheck(r, toolName, toolArguments, events) ==
  LET tools == serverInfo[r.selectedServer].tools
      found == FindTool(tools, toolName)
      schema == tools[found].inputSchema
      parsed == jsonSchemaToZod(schema, toolArguments)
      rr == [r EXCEPT !.toolName = toolName, !.validatedArguments = toolArguments]
  IN  IF found = 0
      THEN Return(rr, events, Catch(Error("Error",
               <<"Schema for tool ">> \o String(toolName) \o <<" not found.">>)))
      ELSE IF ~parsed.ok
      THEN Return(rr, events \o <<Validate(schema, toolArguments, FALSE)>>, Catch(ZodError))
      ELSE Await("callTool", rr,
                 events \o <<Validate(schema, toolArguments, TRUE),
                   CallTool(r.selectedServer, toolName, parsed.value)>>)

\* lines 215-238: the checks on the argument map, the validator, callTool
Invoke(r, toolName, toolArguments, events) ==
  LET tools == serverInfo[r.selectedServer].tools
      found == FindTool(tools, toolName)
      schema == tools[found].inputSchema
      parsed == jsonSchemaToZod(schema, toolArguments)
      rr == [r EXCEPT !.toolName = toolName, !.validatedArguments = toolArguments]
  IN  IF Falsy(toolArguments) \/ Keys(toolArguments) = {}
      THEN Return(rr, events, Catch(Error("Error",
               <<"Invalid or missing arguments", " for tool: ">> \o String(toolName))))
      ELSE IF found = 0
      THEN Return(rr, events, Catch(Error("Error",
               <<"Schema for tool ">> \o String(toolName) \o <<" not found.">>)))
      ELSE IF ~parsed.ok
      THEN Return(rr, events \o <<Validate(schema, toolArguments, FALSE)>>, Catch(ZodError))
      ELSE Await("callTool", rr,
                 events \o <<Validate(schema, toolArguments, TRUE),
                   CallTool(r.selectedServer, toolName, parsed.value)>>)

\* the command loop reads a query and calls processQuery, which runs up to
\* the completion of selectServer
ProcessQuery(query) ==
  /\ pc = "idle"
  /\ runs < MaxRuns
  /\ runs' = runs + 1
  /\ before' = serverInfo
  /\ pc' = "selectServer"
  /\ run' = [NoRun EXCEPT !.query = query]
  /\ calls' = <<Complete("selectServer")>>
  /\ UNCHANGED <<preference, clients, serverInfo, result, probe, out, flights>>

\* SelectServerReturns with selectPrompt asking the model whatever the
\* number of prompts
SelectServerReturnsAlwaysAsks(resp) ==
  /\ pc = "selectServer"
  /\ LET answer == selectServer(preference, resp, serverInfo)
         selected == answer.value
         r0 == Resumed(run, "selectServer", resp)
         r == [r0 EXCEPT !.selectedServer = selected.name]
     IN  IF ~answer.ok
         THEN Return(r0, << >>, Catch(answer.error))
         ELSE IF ~selected.found
         THEN Return(r0, << >>, Returned(<<"No suitable MCP server found to handle this query.">>))
         ELSE IF ~getSession(selected.name)
         THEN Return(r, << >>, Returned(<<"Session for server ">> \o selected.name \o <<" not found.">>))
         ELSE IF selected.name \notin DOMAIN serverInfo
         THEN Return(r, << >>, Returned(<<"Server info for ">> \o selected.name \o <<" not found.">>))
         ELSE Await("selectPrompt", r, <<Complete("selectPrompt")>>)
  /\ UNCHANGED <<preference, clients, serverInfo, before, runs, probe, out, flights>>

\* lines 165-199 up to the next await
SelectServerReturns(resp) ==
  /\ pc = "selectServer"
  /\ LET answer == selectServer(preference, resp, serverInfo)
         selected == answer.value
         r0 == Resumed(run, "selectServer", resp)
         r == [r0 EXCEPT !.selectedServer = selected.name]
     IN  IF ~answer.ok
         THEN Return(r0, << >>, Catch(answer.error))
         ELSE IF ~selected.found
         THEN Return(r0, << >>, Returned(<<"No suitable MCP server found to handle this query.">>))
         ELSE IF ~getSession(selected.name)
         THEN Return(r, << >>, Returned(<<"Session for server ">> \o selected.name \o <<" not found.">>))
         ELSE IF selected.name \notin DOMAIN serverInfo
         THEN Return(r, << >>, Returned(<<"Server info for ">> \o selected.name \o <<" not found.">>))
         ELSE IF serverInfo[selected.name].prompts = << >>
         THEN AwaitSelectTool([r EXCEPT !.selectedPromptName = JNull], CorrectedQuery(run.query))
         ELSE Await("selectPrompt", r, <<Complete("selectPrompt")>>)
  /\ UNCHANGED <<preference, clients, serverInfo, before, runs, probe, out, flights>>

\* selectPromptAndFill lines 95-117 and processQuery 190-199
SelectPromptReturns(resp) ==
  /\ pc = "selectPrompt"
  /\ LET info == serverInfo[run.selectedServer]
         selected == selectPrompt(preference, resp)
         name == selected.value.name
         known == \E i \in DOMAIN info.prompts : info.prompts[i].name = name
         selectedPrompt == CHOOSE q \in {info.prompts[i] : i \in DOMAIN info.prompts} : q.name = name
         r == [run EXCEPT !.selectedPromptName =
                              IF selected.value.found THEN JStr(name) ELSE JNull]
     IN  IF ~selected.ok
         THEN Return(Resumed(run, "selectPrompt", resp), << >>, Catch(selected.error))
         ELSE IF ~selected.value.found \/ ~known \/ name \notin DOMAIN info.promptTemplates
         THEN AwaitSelectTool(r, CorrectedQuery(run.query))
         ELSE IF Len(selectedPrompt.arguments) > 0
         THEN Await("extractPromptArguments", [r EXCEPT !.promptName = name],
                    <<Complete("extractPromptArguments")>>)
         ELSE AwaitSelectTool(r,
                UserMessage(FilledMessages(info.promptTemplates[name], EmptyObj)))
  /\ UNCHANGED <<preference, clients, serverInfo, before, runs, probe, out, flights>>

\* selectPromptAndFill lines 117-138 and processQuery 190-199
ExtractPromptArgumentsReturns(resp) ==
  /\ pc = "extractPromptArguments"
  /\ LET info == serverInfo[run.selectedServer]
         selectedPrompt == CHOOSE q \in {info.prompts[i] : i \in DOMAIN info.prompts} :
                             q.name = run.promptName
         args == extractPromptArguments(preference, resp, selectedPrompt.arguments)
         r == [run EXCEPT !.promptName = << >>, !.args = args.value]
     IN  IF ~args.ok
         THEN Return(Resumed(run, "extractPromptArguments", resp), << >>, Catch(args.error))
         ELSE IF Falsy(args.value)
         THEN AwaitSelectTool(r, CorrectedQuery(run.query))
         ELSE AwaitSelectTool(r,
                UserMessage(FilledMessages(info.promptTemplates[run.promptName], args.value)))
  /\ UNCHANGED <<preference, clients, serverInfo, before, runs, probe, out, flights>>

\* SelectToolReturns asking the extraction with the message that was used
\* for tool selection
SelectToolReturnsWithMessage(resp) ==
  /\ pc = "selectTool"
  /\ LET tools == serverInfo[run.selectedServer].tools
         answer == selectTool(preference, resp)
         toolCall == answer.value
         toolName == Get(toolCall, <<"tool_name">>)
         given == Get(toolCall, <<"arguments">>)
         toolArguments == IF Falsy(given) THEN EmptyObj ELSE given
         found == FindTool(tools, toolName)
         r == [Resumed(run, "selectTool", resp) EXCEPT
                 !.rawResponse = IF resp.raises THEN @ ELSE JStr(RawAnswer(preference, resp))]
     IN  IF ~answer.ok
         THEN Return(r, << >>, Catch(answer.error))
         ELSE IF toolCall.type \in {"null", "undefined"}
         THEN Return(r, << >>, Catch(NullTypeError))
         ELSE IF Falsy(toolName)
         THEN Return([r EXCEPT !.toolName = toolName], << >>,
                     Returned(<<"LLM could not determine which tool to use.">>))
         ELSE IF Keys(toolArguments) = {} /\ found # 0 /\ ~NoProperties(tools[found])
         THEN Await("extractToolArguments", [r EXCEPT !.toolName = toolName],
                    <<ExtractToolArguments(tools[found].name, calls[Len(calls)].message),
                      CompleteWith("extractToolArguments", calls[Len(calls)].message)>>)
         ELSE IF Keys(toolArguments) = {} /\ found # 0
         THEN Invoke(r, toolName, EmptyObj,
                     <<ExtractToolArguments(tools[found].name, calls[Len(calls)].message)>>)
         ELSE Invoke(r, toolName, toolArguments, << >>)
  /\ UNCHANGED <<preference, clients, serverInfo, before, runs, probe, out, flights>>

\* lines 199-238 up to the next await
SelectToolReturns(resp) ==
  /\ pc = "selectTool"
  /\ LET tools == serverInfo[run.selectedServer].tools
         answer == selectTool(preference, resp)
         toolCall == answer.value
         toolName == Get(toolCall, <<"tool_name">>)
         given == Get(toolCall, <<"arguments">>)
         toolArguments == IF Falsy(given) THEN EmptyObj ELSE given
         found == FindTool(tools, toolName)
         r == [Resumed(run, "selectTool", resp) EXCEPT
                 !.rawResponse = IF resp.raises THEN @ ELSE JStr(RawAnswer(preference, resp))]
     IN  IF ~answer.ok
         THEN Return(r, << >>, Catch(answer.error))
         ELSE IF toolCall.type \in {"null", "undefined"}
         THEN Return(r, << >>, Catch(NullTypeError))
         ELSE IF Falsy(toolName)
         THEN Return([r EXCEPT !.toolName = toolName], << >>,
                     Returned(<<"LLM could not determine which tool to use.">>))
         ELSE IF Keys(toolArguments) = {} /\ found # 0 /\ ~NoProperties(tools[found])
         THEN Await("extractToolArguments", [r EXCEPT !.toolName = toolName],
                    <<ExtractToolArguments(tools[found].name, CorrectedQuery(run.query)),
                      CompleteWith("extractToolArguments", CorrectedQuery(run.query))>>)
         ELSE IF Keys(toolArguments) = {} /\ found # 0
         THEN Invoke(r, toolName, EmptyObj,
                     <<ExtractToolArguments(tools[found].name, CorrectedQuery(run.query))>>)
         ELSE Invoke(r, toolName, toolArguments, << >>)
  /\ UNCHANGED <<preference, clients, serverInfo, before, runs, probe, out, flights>>

\* lines 210-238 up to the next await
ExtractToolArgumentsReturns(resp) ==
  /\ pc = "extractToolArguments"
  /\ LET tools == serverInfo[run.selectedServer].tools
         tool == tools[FindTool(tools, run.toolName)]
         args == extractToolArguments(preference, resp, tool)
     IN  IF ~args.ok
         THEN Return(Resumed(run, "extractToolArguments", resp), << >>, Catch(args.error))
         ELSE Invoke(run, run.toolName, args.value, << >>)
  /\ UNCHANGED <<preference, clients, serverInfo, before, runs, probe, out, flights>>

\* CallToolReturns counting the invocation on every registered server
CallToolReturnsCountsAll(rawResult) ==
  /\ pc = "callTool"
  /\ serverInfo' = [n \in DOMAIN serverInfo |-> [serverInfo[n] EXCEPT !.load = NextLoad(@)]]
  /\ Return([run EXCEPT !.rawResult = rawResult], << >>,
            Returned(<<"Result from ">> \o run.selectedServer \o <<":\n">> \o ResultText(rawResult)))
  /\ UNCHANGED <<preference, clients, before, runs, probe, out, flights>>

\* lines 238-256 when callTool resolves
CallToolReturns(rawResult) ==
  /\ pc = "callTool"
  /\ serverInfo' = [serverInfo EXCEPT ![run.selectedServer].load = NextLoad(@)]
  /\ Return([run EXCEPT !.rawResult = rawResult], << >>,
            Returned(<<"Result from ">> \o run.selectedServer \o <<":\n">> \o ResultText(rawResult)))
  /\ UNCHANGED <<preference, clients, before, runs, probe, out, flights>>

\* CallToolRaises counting the failed invocation as load
CallToolRaisesCounted(error) ==
  /\ pc = "callTool"
  /\ serverInfo' = [serverInfo EXCEPT ![run.selectedServer].load = NextLoad(@)]
  /\ Return(run, << >>, Catch(error))
  /\ UNCHANGED <<preference, clients, before, runs, probe, out, flights>>

\* lines 238 and 257-268 when callTool rejects
CallToolRaises(error) ==
  /\ pc = "callTool"
  /\ Return(run, << >>, Catch(error))
  /\ UNCHANGED <<preference, clients, serverInfo, before, runs, probe, out, flights>>

\* the command loop prints the result and reads the next line
ChatLoopNext ==
  /\ pc = "done"
  /\ pc' = "idle"
  /\ run' = NoRun
  /\ calls' = << >>
  /\ result' = NoResult
  /\ before' = [n \in {} |-> 0]
  /\ UNCHANGED <<preference, clients, serverInfo, runs, probe, out, flights>>

(***************************************************************************)
(* Inputs and specification                                                *)
(***************************************************************************)
Queries == {<<"show schema of users">>, <<"excute", " ", "excute">>}

Latencies == {12, 40}

ServerAnswers ==
  {Answer(DB), Answer(<<" ">> \o UTIL \o <<"\n">>), Answer(<<"None">>),
   Answer(<<"mars">>), NullAnswer, Raises}

PromptAnswers ==
  {Answer(RUN_QUERY), Answer(<<"None">>), Answer(GHOST), NullAnswer, Raises}

PromptArgumentAnswers ==
  {Answer(<<"{query:s}">>), Answer(<<"{query:}">>), Answer(Fenced("{query:s}")),
   Answer(<<"Sorry, I cannot">>), Answer(<<"null">>), Answer(<<"{}">>), Raises}

ToolAnswers ==
  {Answer(<<d>>) : d \in {"{schema,full}", "{schema,notable}", "{schema,emptytable}",
                          "{schema,fullextra}", "{schema}", "{ghost,full}", "{ghost}", "{toggle,flagextra}",
                          "{toggle,extra}", "{toggle}", "{ping,{}}", "{ping,extra}",
                          "{args}", "null"}}
    \cup {Answer(Fenced("{schema,full}")), Answer(<<"I would use get_table_schema">>),
          NullAnswer, Raises}

ToolArgumentAnswers ==
  {Answer(<<d>>) : d \in {"{full}", "{notable}", "{emptytable}", "{flagextra}",
                          "{extra}", "{}", "null"}}
    \cup {Answer(Fenced("{full}")), Answer(<<"no idea">>), NullAnswer, Raises}

ToolResults ==
  {NoContent, Content(<< >>), Content(<<TextItem(<<"rows">>)>>), Content(<<TextItem(<< >>)>>),
   Content(<<JsonItem(JObj(TABLE :> JStr(<<"u">>))), TextItem(<<"rows">>)>>),
   Content(<<JsonItem(JNull)>>), Content(<<JsonItem(JNum(0))>>),
   Content(<<ImageItem, TextItem(<<"rows">>)>>)}

\* the errors session.callTool rejects with: the transport's or the server's
ToolErrors == {ToolError, PermissionDenied, ExecutionError(String(run.toolName))}

Next ==
  \/ \E n \in Servers, step \in {"connect", "listTools", "listResources", "listPrompts", "getPrompt"} :
       ConnectToServerFails(n, step)
  \/ \E n \in Servers, latency \in Latencies : ConnectToServerSucceeds(n, latency)
  \/ Cleanup
  \/ \E query \in Queries : ProcessQuery(query)
  \/ \E resp \in ServerAnswers : SelectServerReturns(resp)
  \/ \E resp \in PromptAnswers : SelectPromptReturns(resp)
  \/ \E resp \in PromptArgumentAnswers : ExtractPromptArgumentsReturns(resp)
  \/ \E resp \in ToolAnswers : SelectToolReturns(resp)
  \/ \E resp \in ToolArgumentAnswers : ExtractToolArgumentsReturns(resp)
  \/ \E rawResult \in ToolResults : CallToolReturns(rawResult)
  \/ \E error \in ToolErrors : CallToolRaises(error)
  \/ ChatLoopNext

Spec == Init /\ [][Next]_vars

\* the registry of a client that has been answering queries for a while:
\* both servers connected, every load one short of the clamp or at it
InitLoaded ==
  /\ preference \in {"openai", "anthropic"}
  /\ clients = Servers
  /\ \E latency \in Latencies, loads \in [Servers -> {MaxLoad - 1, MaxLoad}] :
       serverInfo = [n \in Servers |-> [Discovered(n, latency) EXCEPT !.load = loads[n]]]
  /\ pc = "idle"
  /\ run = NoRun
  /\ calls = << >>
  /\ result = NoResult
  /\ before = [n \in {} |-> 0]
  /\ runs = 0
  /\ probe = NoProbe
  /\ out = NoProbe
  /\ flights = << >>

SpecLoaded == InitLoaded /\ [][Next]_vars

(***************************************************************************)
(* selectServer applied on its own to a response and a registry            *)
(***************************************************************************)
Idle ==
  /\ clients = {}
  /\ serverInfo = [n \in {} |-> 0]
  /\ pc = "idle"
  /\ run = NoRun
  /\ calls = << >>
  /\ result = NoResult
  /\ before = [n \in {} |-> 0]
  /\ runs = 0
  /\ flights = << >>

pipeline == <<preference, clients, serverInfo, pc, run, calls, result, before, runs, flights>>

NONE == <<"None">>

Registries ==
  {[n \in names |-> Discovered(n, 12)] : names \in SUBSET (Servers \cup {NONE})}

ServerProbeAnswers ==
  ServerAnswers \cup {Answer(<< >>), Answer(<<" ">>), Answer(<<"db", " ", "util">>),
                      Answer(<<"\n", "db">>)}

InitSelectServer ==
  /\ Idle
  /\ preference \in {"openai", "anthropic"}
  /\ probe \in {[fn |-> "selectServer", resp |-> resp, info |-> info] :
                  resp \in ServerProbeAnswers, info \in Registries}
  /\ out = NoProbe

ApplySelectServer ==
  /\ probe.fn = "selectServer"
  /\ out = NoProbe
  /\ out' = selectServer(preference, probe.resp, probe.info)
  /\ UNCHANGED <<pipeline, probe>>

SpecSelectServer == InitSelectServer /\ [][ApplySelectServer]_vars

(***************************************************************************)
(* jsonSchemaToZod applied on its own to a schema and an argument map      *)
(***************************************************************************)
\* a required field that the properties do not declare
UndeclaredRequiredSchema == ObjectSchema(DATABASE :> Prop("string"), <<DATABASE, TABLE>>, FALSE)

\* a minimum length, an optional number, closed
MinLengthSchema ==
  ObjectSchema((DATABASE :> PropMin("string", 2)) @@ (EXTRA :> Prop("number")), <<DATABASE>>, TRUE)

\* required fields but no properties
NoPropertiesSchema ==
  [type |-> "object", hasProperties |-> FALSE, properties |-> EmptyMap,
   hasRequired |-> TRUE, required |-> <<FLAG>>, additionalProperties |-> TRUE]

Schemas ==
  {TableInfoSchema, ToggleSchema, UndeclaredRequiredSchema, MinLengthSchema,
   NoPropertiesSchema, BlankSchema}

ArgumentValues == {JStr(<< >>), JStr(<<"m", "y">>), JNum(1), JBool(TRUE)}

ArgumentMaps ==
  UNION {[keys -> ArgumentValues] : keys \in SUBSET {DATABASE, TABLE, FLAG, EXTRA}}

InitSchema ==
  /\ Idle
  /\ preference = "openai"
  /\ probe \in {[fn |-> "jsonSchemaToZod", schema |-> schema, args |-> JObj(m)] :
                  schema \in Schemas, m \in ArgumentMaps}
  /\ out = NoProbe

ApplyJsonSchemaToZod ==
  /\ probe.fn = "jsonSchemaToZod"
  /\ out = NoProbe
  /\ out' = jsonSchemaToZod(probe.schema, probe.args)
  /\ UNCHANGED <<pipeline, probe>>

SpecSchema == InitSchema /\ [][ApplyJsonSchemaToZod]_vars

(***************************************************************************)
(* The LLMClient operations applied on their own to a completion's response *)
(***************************************************************************)
\* properties, nothing required
OptionalSchema == ObjectSchema((DATABASE :> Prop("string")) @@ (TABLE :> Prop("string")), << >>, FALSE)

ProbeTools ==
  {[name |-> PING, inputSchema |-> schema] : schema \in Schemas \cup {OptionalSchema}}

PromptArgument(name) == [name |-> name, required |-> TRUE]

ProbePromptArguments ==
  {<< >>, <<PromptArgument(QUERY)>>, <<PromptArgument(QUERY), PromptArgument(TABLE)>>,
   <<PromptArgument(DATABASE), PromptArgument(TABLE), PromptArgument(QUERY)>>}

\* answers that are no JSON document once the fences are stripped, and
\* answers that are one
ProbeAnswers ==
  {Answer(<< >>), Answer(<<" ">>), Answer(<<"{full}", " ", "thanks">>),
   Answer(Fenced("oops")), Answer(<<BT, BT, BT, "{full}", BT, BT, BT>>),
   Answer(<<" ", "{notable}", "\n">>), Answer(<<"{fullextra}">>)}

\* the whole of extractToolArguments: no completion is made for a tool
\* without properties
ExtractToolArgumentsCall(pref, resp, tool) ==
  IF NoProperties(tool) THEN Ok(EmptyObj) ELSE extractToolArguments(pref, resp, tool)

\* the operation the probe names, applied under a backend preference
Advisor(pref, p) ==
  CASE p.fn = "selectServer" -> selectServer(pref, p.resp, p.info)
    [] p.fn = "selectPrompt" -> selectPrompt(pref, p.resp)
    [] p.fn = "extractPromptArguments" -> extractPromptArguments(pref, p.resp, p.promptArgs)
    [] p.fn = "extractToolArguments" -> ExtractToolArgumentsCall(pref, p.resp, p.tool)
    [] p.fn = "selectTool" -> selectTool(pref, p.resp)

InitAdvisor ==
  /\ Idle
  /\ preference \in {"openai", "anthropic"}
  /\ probe \in
       {[fn |-> "selectServer", resp |-> resp, info |-> info] :
          resp \in ServerAnswers, info \in Registries}
       \cup {[fn |-> "selectPrompt", resp |-> resp] : resp \in PromptAnswers \cup ProbeAnswers}
       \cup {[fn |-> "extractPromptArguments", resp |-> resp, promptArgs |-> promptArgs] :
               resp \in PromptArgumentAnswers \cup ProbeAnswers \cup {NullAnswer},
               promptArgs \in ProbePromptArguments}
       \cup {[fn |-> "extractToolArguments", resp |-> resp, tool |-> tool] :
               resp \in ToolArgumentAnswers \cup ProbeAnswers, tool \in ProbeTools}
       \cup {[fn |-> "selectTool", resp |-> resp] : resp \in ToolAnswers \cup ProbeAnswers}
  /\ out = NoProbe

ApplySelectPrompt ==
  /\ probe.fn = "selectPrompt"
  /\ out = NoProbe
  /\ out' = Advisor(preference, probe)
  /\ UNCHANGED <<pipeline, probe>>

ApplyExtractPromptArguments ==
  /\ probe.fn = "extractPromptArguments"
  /\ out = NoProbe
  /\ out' = Advisor(preference, probe)
  /\ UNCHANGED <<pipeline, probe>>

ApplyExtractToolArguments ==
  /\ probe.fn = "extractToolArguments"
  /\ out = NoProbe
  /\ out' = Advisor(preference, probe)
  /\ UNCHANGED <<pipeline, probe>>

ApplySelectTool ==
  /\ probe.fn = "selectTool"
  /\ out = NoProbe
  /\ out' = Advisor(preference, probe)
  /\ UNCHANGED <<pipeline, probe>>

NextAdvisor ==
  \/ ApplySelectServer
  \/ ApplySelectPrompt
  \/ ApplyExtractPromptArguments
  \/ ApplyExtractToolArguments
  \/ ApplySelectTool

SpecAdvisor == InitAdvisor /\ [][NextAdvisor]_vars

(***************************************************************************)
(* The placeholder loop of selectPromptAndFill applied on its own          *)
(***************************************************************************)
Placeholder(argName) == <<"{{">> \o argName \o <<"}}">>

Templates ==
  {<<"Run ">> \o Placeholder(QUERY) \o <<" now">>,
   Placeholder(QUERY) \o <<" in ">> \o Placeholder(TABLE),
   Placeholder(TABLE) \o Placeholder(QUERY),
   Placeholder(QUERY) \o <<" or ">> \o Placeholder(QUERY),
   <<"List the tables">>,
   << >>}

FillValues == {JStr(<< >>), JStr(<<"SELECT 1">>), JStr(<<"$&">>), JNum(0)}

FillArguments == UNION {[names -> FillValues] : names \in SUBSET {QUERY, TABLE}}

InitFill ==
  /\ Idle
  /\ preference = "openai"
  /\ probe \in {[fn |-> "fill", text |-> text, args |-> JObj(m)] :
                  text \in Templates, m \in FillArguments}
  /\ out = NoProbe

ApplyFill ==
  /\ probe.fn = "fill"
  /\ out = NoProbe
  /\ out' = JStr(FillContent(probe.text, Entries(probe.args)))
  /\ UNCHANGED <<pipeline, probe>>

SpecFill == InitFill /\ [][ApplyFill]_vars

(***************************************************************************)
(* cleanMarkdownJson applied on its own                                    *)
(***************************************************************************)
\* the longest raw response
MaxLen == 7

\* one backtick, one blank, the word json, any other text
Symbols == {BT, " ", "json", "x"}

RawResponses == UNION {[1..n -> Symbols] : n \in 0..MaxLen}

InitClean ==
  /\ Idle
  /\ preference = "openai"
  /\ probe \in {[fn |-> "cleanMarkdownJson", rawResponse |-> s] : s \in RawResponses}
  /\ out = NoProbe

ApplyCleanMarkdownJson ==
  /\ probe.fn = "cleanMarkdownJson"
  /\ out = NoProbe
  /\ out' = JStr(cleanMarkdownJson(probe.rawResponse))
  /\ UNCHANGED <<pipeline, probe>>

SpecClean == InitClean /\ [][ApplyCleanMarkdownJson]_vars

(***************************************************************************)
(* Several processQuery calls in flight on one ServerConnection: each call  *)
(* runs from one await to the next without interruption                     *)
(***************************************************************************)
\* the number of processQuery calls in flight together
MaxFlights == 2

NotStarted == [pc |-> "idle", selectedServer |-> << >>, returned |-> FALSE, overlapped |-> FALSE]

\* where a call can be suspended next, or end ("done"), after the await it
\* is suspended at
Successors(at) ==
  CASE at = "selectPrompt" -> {"extractPromptArguments", "selectTool", "done"}
    [] at = "extractPromptArguments" -> {"selectTool", "done"}
    [] at = "selectTool" -> {"extractToolArguments", "callTool", "done"}
    [] at = "extractToolArguments" -> {"callTool", "done"}
    [] OTHER -> {}

InitConcurrent ==
  /\ preference = "openai"
  /\ clients = Servers
  /\ \E loads \in [Servers -> {0, MaxLoad - 1}] :
       serverInfo = [n \in Servers |-> [Discovered(n, 12) EXCEPT !.load = loads[n]]]
  /\ before = serverInfo
  /\ pc = "idle"
  /\ run = NoRun
  /\ calls = << >>
  /\ result = NoResult
  /\ runs = 0
  /\ probe = NoProbe
  /\ out = NoProbe
  /\ flights = [id \in 1..MaxFlights |-> NotStarted]

\* processQuery is called and suspends at the await of selectServer
FlightStarts(id) ==
  /\ flights[id].pc = "idle"
  /\ flights' = [flights EXCEPT ![id].pc = "selectServer"]
  /\ UNCHANGED <<preference, clients, serverInfo, pc, run, calls, result, before, runs, probe, out>>

\* lines 165-199: selectServer answered
FlightSelectServerReturns(id, selected) ==
  /\ flights[id].pc = "selectServer"
  /\ flights' =
       IF selected \notin DOMAIN serverInfo \/ ~getSession(selected)
       THEN [flights EXCEPT ![id].pc = "done"]
       ELSE [flights EXCEPT ![id].selectedServer = selected,
                            ![id].pc = IF serverInfo[selected].prompts = << >>
                                       THEN "selectTool" ELSE "selectPrompt"]
  /\ UNCHANGED <<preference, clients, serverInfo, pc, run, calls, result, before, runs, probe, out>>

\* lines 189-238: an awaited LLMClient call answered or raised
FlightAdvances(id, next) ==
  /\ next \in Successors(flights[id].pc)
  /\ flights' = [flights EXCEPT ![id].pc = next]
  /\ UNCHANGED <<preference, clients, serverInfo, pc, run, calls, result, before, runs, probe, out>>

\* FlightCallToolReturns writing back the load it read before the await of
\* callTool
FlightCallToolReturnsStale(id) ==
  /\ flights[id].pc = "callTool"
  /\ serverInfo' = [serverInfo EXCEPT ![flights[id].selectedServer].load =
                                         NextLoad(before[flights[id].selectedServer].load)]
  /\ flights' =
       [flights EXCEPT ![id].pc = "done", ![id].returned = TRUE,
                       ![id].overlapped =
                          \E other \in DOMAIN flights \ {id} :
                            /\ flights[other].pc = "callTool"
                            /\ flights[other].selectedServer = flights[id].selectedServer]
  /\ UNCHANGED <<preference, clients, pc, run, calls, result, before, runs, probe, out>>

\* lines 238-256: callTool resolved; the load is read and written in one
\* statement, with no await between the read and the write
FlightCallToolReturns(id) ==
  /\ flights[id].pc = "callTool"
  /\ serverInfo' = [serverInfo EXCEPT ![flights[id].selectedServer].load = NextLoad(@)]
  /\ flights' =
       [flights EXCEPT ![id].pc = "done", ![id].returned = TRUE,
                       ![id].overlapped =
                          \E other \in DOMAIN flights \ {id} :
                            /\ flights[other].pc = "callTool"
                            /\ flights[other].selectedServer = flights[id].selectedServer]
  /\ UNCHANGED <<preference, clients, pc, run, calls, result, before, runs, probe, out>>

\* lines 238 and 257-268: callTool rejected
FlightCallToolRaises(id) ==
  /\ flights[id].pc = "callTool"
  /\ flights' = [flights EXCEPT ![id].pc = "done"]
  /\ UNCHANGED <<preference, clients, serverInfo, pc, run, calls, result, before, runs, probe, out>>

NextConcurrent ==
  \E id \in 1..MaxFlights :
    \/ FlightStarts(id)
    \/ \E selected \in Servers \cup {NONE} : FlightSelectServerReturns(id, selected)
    \/ \E next \in {"extractPromptArguments", "selectTool", "extractToolArguments",
                    "callTool", "done"} : FlightAdvances(id, next)
    \/ FlightCallToolReturns(id)
    \/ FlightCallToolRaises(id)

SpecConcurrent == InitConcurrent /\ [][NextConcurrent]_vars

(***************************************************************************)
(* Claims                                                                  *)
(***************************************************************************)
\* the positions of the calls of one kind in this run
CallsOf(op) == {i \in DOMAIN calls : calls[i].op = op}

StartsWith(s, t) == Len(s) >= Len(t) /\ SubSeq(s, 1, Len(t)) = t

\* the run invoked the tool and the invocation returned
Invoked == run.rawResult # Unset

\* C1: every processQuery call that ends, ends by returning a string: no
\* error escapes, whatever the language model, the validator and the
\* session do
C1_ReturnsString ==
  /\ pc = "done" => result.kind = "returned"
  /\ pc # "done" => result = NoResult

\* C1 witness: a run whose arguments the validator rejected has returned
C1_Witness ==
  /\ pc = "done"
  /\ \E i \in CallsOf("validate") : ~calls[i].ok
  /\ result.kind = "returned"

\* C2: callTool is invoked at most once in a run, the validator built from
\* the selected tool's inputSchema runs at most once, callTool is invoked
\* right after the validator accepted and with the validator's output, and
\* never after it rejected
C2_ValidatedBeforeCall ==
  /\ Cardinality(CallsOf("callTool")) <= 1
  /\ Cardinality(CallsOf("validate")) <= 1
  /\ \A i \in CallsOf("callTool") :
       /\ i > 1
       /\ calls[i - 1].op = "validate"
       /\ calls[i - 1].ok
       /\ \E k \in DOMAIN serverInfo[calls[i].server].tools :
            LET tool == serverInfo[calls[i].server].tools[k]
            IN  /\ tool.name = calls[i].name.str
                /\ tool.inputSchema = calls[i - 1].schema
       /\ ZodAccepts(calls[i - 1].schema, calls[i - 1].arguments)
       /\ calls[i].arguments = ZodOutput(calls[i - 1].schema, calls[i - 1].arguments)
  /\ \A i \in CallsOf("validate") :
       ~calls[i].ok => (i = Len(calls) /\ pc = "done")

\* C2 witness: callTool is pending with arguments the validator changed
C2_Witness ==
  /\ pc = "callTool"
  /\ \E i \in CallsOf("callTool") : calls[i].arguments # calls[i - 1].arguments

\* the argument map that reached line 216 is empty
EmptyArguments ==
  /\ run.validatedArguments # Unset
  /\ Falsy(run.validatedArguments) \/ Keys(run.validatedArguments) = {}

\* C3: when the argument map is empty after tool selection and argument
\* completion, the run returns a failure string that contains "Invalid or
\* missing arguments" and callTool is not invoked
C3_EmptyArgumentsRejected ==
  EmptyArguments =>
    /\ pc = "done"
    /\ result.kind = "returned"
    /\ Includes(result.text, <<"Invalid or missing arguments">>)
    /\ CallsOf("callTool") = {}

\* C3 witness: extractToolArguments was asked and the map is still empty
C3_Witness ==
  /\ EmptyArguments
  /\ \E i \in CallsOf("complete") : calls[i].for = "extractToolArguments"

\* the tool name is a name of the selected server's catalog
InCatalog(server, toolName) ==
  /\ toolName.type = "string"
  /\ \E k \in DOMAIN serverInfo[server].tools : serverInfo[server].tools[k].name = toolName.str

\* C4: callTool is invoked only with a tool name of the selected server's
\* catalog and on the selected server's session; a run whose tool name is
\* not in the catalog ends with a failure string and without invocation
C4_OnlyCatalogTools ==
  /\ \A i \in CallsOf("callTool") :
       /\ calls[i].server = run.selectedServer
       /\ calls[i].server \in clients
       /\ InCatalog(calls[i].server, calls[i].name)
  /\ (run.toolName # Unset /\ ~Falsy(run.toolName) /\ ~InCatalog(run.selectedServer, run.toolName)) =>
       /\ pc = "done"
       /\ result.kind = "returned"
       /\ StartsWith(result.text, <<"Failed to process query: ">>)
       /\ CallsOf("callTool") = {}

\* C4 witness: the model named an unknown tool and supplied arguments
C4_Witness ==
  /\ pc = "done"
  /\ run.toolName = JStr(GHOST)
  /\ run.validatedArguments = ArgsFull

\* C7: every registered server's load is between 0 and 100
C7_LoadInRange ==
  \A n \in DOMAIN serverInfo : 0 <= serverInfo[n].load /\ serverInfo[n].load <= MaxLoad

\* C7 witness: an invocation returned on a server whose load was 100
C7_Witness ==
  /\ pc = "done"
  /\ Invoked
  /\ before[run.selectedServer].load = MaxLoad

\* the registry entry without its load
Capabilities(info) ==
  [tools |-> info.tools, resources |-> info.resources, prompts |-> info.prompts,
   promptTemplates |-> info.promptTemplates, latency |-> info.latency]

\* C8: a run without an invocation that returned leaves every load as it
\* was, and no run changes the registered servers, their tools, resources,
\* prompts, prompt bodies or latency, or the load of another server
C8_Frame ==
  pc # "idle" =>
    /\ DOMAIN serverInfo = DOMAIN before
    /\ \A n \in DOMAIN serverInfo :
         /\ Capabilities(serverInfo[n]) = Capabilities(before[n])
         /\ (~Invoked \/ n # run.selectedServer) => serverInfo[n].load = before[n].load

\* C8 witness: callTool raised while two servers were registered
C8_Witness ==
  /\ pc = "done"
  /\ CallsOf("callTool") # {}
  /\ ~Invoked
  /\ DOMAIN serverInfo = Servers

\* C9: when the invocation returns, the selected server's load is its load
\* before the run plus one, at most 100, no other load changes, and the run
\* returns "Result from <server>:", a newline and the normalized result
C9_SuccessBookkeeping ==
  (pc = "done" /\ Invoked) =>
    /\ serverInfo[run.selectedServer].load =
         (IF before[run.selectedServer].load + 1 <= MaxLoad
          THEN before[run.selectedServer].load + 1 ELSE MaxLoad)
    /\ \A n \in DOMAIN serverInfo \ {run.selectedServer} : serverInfo[n].load = before[n].load
    /\ result = Returned(<<"Result from ">> \o run.selectedServer \o <<":\n">>
                           \o ResultText(run.rawResult))

\* C9 witness: an invocation returned on a server whose load was 99
C9_Witness ==
  /\ pc = "done"
  /\ Invoked
  /\ before[run.selectedServer].load = MaxLoad - 1
  /\ serverInfo[run.selectedServer].load = MaxLoad
  /\ DOMAIN serverInfo = Servers

\* C5: with no server registered, processQuery returns exactly "No
\* suitable MCP server found to handle this query." and makes no external
\* call (no completion, no session call) during the run
C5_EmptyRegistryNoExternalCall ==
  (pc # "idle" /\ DOMAIN before = {}) =>
    /\ calls = << >>
    /\ pc = "done" =>
         result = Returned(<<"No suitable MCP server found to handle this query.">>)

\* C6: selectServer never raises; a name it returns is a key of the
\* registry; it returns null when the completion raises, when the answer
\* (as read from the response and trimmed) is "None" and when it is no key
C6_SelectServerOnlyKeys ==
  (probe.fn = "selectServer" /\ out # NoProbe) =>
    /\ out.ok
    /\ out.value.found =>
         /\ out.value.name \in DOMAIN probe.info
         /\ out.value.name = TrimmedAnswer(preference, probe.resp)
    /\ ( \/ probe.resp.raises
         \/ TrimmedAnswer(preference, probe.resp) = NONE
         \/ TrimmedAnswer(preference, probe.resp) \notin DOMAIN probe.info )
       => ~out.value.found

\* C6 witness: the answer names no server of a registry that has servers
C6_Witness ==
  /\ probe.fn = "selectServer"
  /\ out # NoProbe
  /\ probe.resp = Answer(<<"mars">>)
  /\ preference = "openai"
  /\ DOMAIN probe.info = Servers
  /\ ~out.value.found

\* the argument map lacks a field of the required list
LacksRequired(schema, args) ==
  \E i \in DOMAIN schema.required : schema.required[i] \notin DOMAIN args.obj

\* the value has the type the property declares
OfDeclaredType(propSchema, v) ==
  /\ v.type = propSchema.type
  /\ (propSchema.type = "string" => Len(v.str) >= propSchema.minLength)

\* the argument map supplies every required field, and every field it
\* supplies is declared and has a value of the declared type
WellTyped(schema, args) ==
  /\ ~LacksRequired(schema, args)
  /\ \A key \in DOMAIN args.obj :
       /\ key \in DOMAIN schema.properties
       /\ OfDeclaredType(schema.properties[key], args.obj[key])

\* C10: for a schema with a non-empty required list, the validator rejects
\* every argument map that lacks a required field and accepts every map
\* that supplies all required fields with values of the declared types
C10_RequiredEnforced ==
  (probe.fn = "jsonSchemaToZod" /\ out # NoProbe /\ probe.schema.required # << >>) =>
    /\ LacksRequired(probe.schema, probe.args) => ~out.ok
    /\ WellTyped(probe.schema, probe.args) => out.ok

\* the keys of an argument map that the schema's properties do not declare
ExtraKeys(schema, args) == Keys(args) \ DOMAIN schema.properties

\* C11: the validator of a schema that declares no additional properties
\* rejects every argument map with a key outside the declared properties;
\* under any other schema the undeclared keys of an accepted map are present,
\* with the same values, in the arguments handed to session.callTool
C11_ExtraKeysPassThrough ==
  \A i \in CallsOf("validate") :
    LET schema == calls[i].schema
        args == calls[i].arguments
    IN  /\ (~schema.additionalProperties /\ ExtraKeys(schema, args) # {}) => ~calls[i].ok
        /\ (schema.additionalProperties /\ calls[i].ok) =>
             /\ i + 1 \in CallsOf("callTool")
             /\ \A key \in ExtraKeys(schema, args) :
                  /\ HasKey(calls[i + 1].arguments, key)
                  /\ Get(calls[i + 1].arguments, key) = Get(args, key)

\* what JSON.parse makes of the response the operation read, fences stripped
ParsedAnswer(pref, resp) == JSONParse(cleanMarkdownJson(RawAnswer(pref, resp)))

\* a field of the required list is absent from the object or is ""
Incomplete(required, args) ==
  \E i \in DOMAIN required :
    required[i] \notin DOMAIN args.obj \/ IsEmptyString(args.obj[required[i]])

\* C12: when the answer parses to a JSON object, extractToolArguments
\* returns without raising; it returns the empty map when the object lacks
\* a required field or carries it as the empty string, whatever its other
\* fields are, and it returns the parsed object only when every required
\* field is present and non-empty (and then it does, for a tool that has
\* properties)
C12_MissingRequiredGivesEmptyMap ==
  LET parsed == ParsedAnswer(preference, probe.resp)
      required == probe.tool.inputSchema.required
  IN  (probe.fn = "extractToolArguments" /\ out # NoProbe /\ ~probe.resp.raises
         /\ parsed.ok /\ parsed.value.type = "object") =>
        /\ out.ok
        /\ Incomplete(required, parsed.value) => out.value = EmptyObj
        /\ (out.value = parsed.value /\ parsed.value # EmptyObj) => ~Incomplete(required, parsed.value)
        /\ (~Incomplete(required, parsed.value) /\ ~NoProperties(probe.tool)) =>
             out.value = parsed.value

\* C12 witness: the object has a valid database and an extra key but the
\* required table is the empty string, and the empty map came back
C12_Witness ==
  /\ probe.fn = "extractToolArguments"
  /\ out # NoProbe
  /\ preference = "openai"
  /\ probe.tool.inputSchema = TableInfoSchema
  /\ probe.resp = Answer(<<"{emptytable}">>)
  /\ out = Ok(EmptyObj)

\* the tool the run selected, when it is in the selected server's catalog
SelectedTool ==
  serverInfo[run.selectedServer].tools[FindTool(serverInfo[run.selectedServer].tools, run.toolName)]

\* the run selected a catalog tool that declares no input properties and the
\* model supplied no arguments for it
NeedsNoArguments ==
  /\ run.toolName # Unset
  /\ run.selectedServer \in DOMAIN serverInfo
  /\ InCatalog(run.selectedServer, run.toolName)
  /\ NoProperties(SelectedTool)
  /\ EmptyArguments

\* C13: what extractToolArguments returns for a tool without input
\* properties differs from what it returns when extraction failed, and a
\* run that selected a tool needing no arguments is not rejected with
\* "Invalid or missing arguments"
C13_NoArgumentsDistinctFromFailure ==
  NeedsNoArguments =>
    /\ ExtractToolArgumentsCall(preference, Answer(<<"{}">>), SelectedTool)
         # extractToolArguments(preference, Answer(<<"{notable}">>), [name |-> PING, inputSchema |-> TableInfoSchema])
    /\ ~(pc = "done" /\ Includes(result.text, <<"Invalid or missing arguments">>))

\* the completions this run made for one LLMClient operation
CompletionsFor(op) == {i \in CallsOf("complete") : calls[i].for = op}

\* what selectTool read from its completion is no JSON document once the
\* fences are stripped
ToolAnswerUnparsable ==
  /\ run.rawResponse # Unset
  /\ ~JSONParse(cleanMarkdownJson(run.rawResponse.str)).ok

\* C14: when the tool-selection answer is not valid JSON after fence
\* stripping, the run ends by returning a string that starts with "Failed
\* to process query: ", no tool was chosen by default, extractToolArguments
\* and session.callTool are not called and the selection is not repeated
C14_UnparsableSelectionFails ==
  ToolAnswerUnparsable =>
    /\ pc = "done"
    /\ result.kind = "returned"
    /\ StartsWith(result.text, <<"Failed to process query: ">>)
    /\ run.toolName = Unset
    /\ CompletionsFor("extractToolArguments") = {}
    /\ CallsOf("validate") = {}
    /\ CallsOf("callTool") = {}
    /\ Cardinality(CompletionsFor("selectTool")) = 1

\* C14 witness: the model answered tool selection in prose
C14_Witness ==
  /\ ToolAnswerUnparsable
  /\ preference = "openai"
  /\ run.rawResponse = JStr(<<"I would use get_table_schema">>)
  /\ result = Returned(<<"Failed to process query: ", "LLM response is not valid JSON.">>)

\* the declared argument names
ArgumentNames(promptArgs) == {promptArgs[i].name : i \in DOMAIN promptArgs}

\* C15: when the answer extractPromptArguments read is not valid JSON after
\* fence stripping, it returns, without raising, a map whose keys are
\* exactly the declared argument names, each with the empty string as value
C15_UnparsableGivesEmptyStrings ==
  (probe.fn = "extractPromptArguments" /\ out # NoProbe /\ ~probe.resp.raises
     /\ ~ParsedAnswer(preference, probe.resp).ok) =>
    /\ out.ok
    /\ out.value.type = "object"
    /\ DOMAIN out.value.obj = ArgumentNames(probe.promptArgs)
    /\ \A name \in DOMAIN out.value.obj : out.value.obj[name] = JStr(<< >>)

\* C15 witness: a prose answer for a prompt that declares two arguments
C15_Witness ==
  /\ probe.fn = "extractPromptArguments"
  /\ out # NoProbe
  /\ preference = "openai"
  /\ probe.resp = Answer(<<"Sorry, I cannot">>)
  /\ ArgumentNames(probe.promptArgs) = {QUERY, TABLE}
  /\ out = Ok(JObj((QUERY :> JStr(<< >>)) @@ (TABLE :> JStr(<< >>))))

\* C16: when the completion made for prompt selection or for
\* prompt-argument extraction raises, the run goes on to tool selection with
\* the normalized query as the message, and does not return a failure string
C16_SelectionFailureDegrades ==
  run.raised \in {"selectPrompt", "extractPromptArguments"} =>
    /\ \E i \in CompletionsFor("selectTool") : calls[i].message = CorrectedQuery(run.query)
    /\ ~(pc = "done" /\ StartsWith(result.text, <<"Failed to process query: ">>))

\* the other backend
OtherBackend(pref) == IF pref = "openai" THEN "anthropic" ELSE "openai"

\* C17: for the same response of the model, each LLMClient operation
\* (selectServer, selectPrompt, extractPromptArguments, extractToolArguments,
\* selectTool) gives the same result under either backend preference
C17_BackendsInterchangeable ==
  out # NoProbe => out = Advisor(OtherBackend(preference), probe)

\* the text by the kind of the first content item alone
TextByType(rawResult) ==
  IF rawResult.hasContent /\ Len(rawResult.items) > 0
  THEN LET firstItem == rawResult.items[1]
       IN  CASE firstItem.type = "json" -> Stringify(firstItem.data, << >>)
             [] firstItem.type = "text" -> firstItem.text
             [] OTHER -> <<"Unsupported content type: ", firstItem.type>>
  ELSE <<"No content returned from tool.">>

\* C18: the result text depends on the first content item only: the
\* pretty-printed data of every "json" item, the literal text of every
\* "text" item whatever that text is, "Unsupported content type: <type>" for
\* an item of another type, "No content returned from tool." for an empty
\* or absent content list
C18_NormalizationByType ==
  (pc = "done" /\ Invoked) =>
    result.text = <<"Result from ">> \o run.selectedServer \o <<":\n">> \o TextByType(run.rawResult)

\* the replacement the claim gives for an argument value
Replacement(argValue) == IF IsEmptyString(argValue) THEN <<"N/A">> ELSE String(argValue)

\* the text with every placeholder of a name of the map replaced, and
\* everything else verbatim
RECURSIVE Filled(_, _)
Filled(text, args) ==
  IF text = << >> THEN << >>
  ELSE IF Len(text) >= 3 /\ text[1] = "{{" /\ text[3] = "}}" /\ <<text[2]>> \in DOMAIN args.obj
  THEN Replacement(args.obj[<<text[2]>>]) \o Filled(SubSeq(text, 4, Len(text)), args)
  ELSE <<Head(text)>> \o Filled(Tail(text), args)

\* C19: in the filled text a placeholder {{name}} whose value is the empty
\* string has become "N/A", one whose value is non-empty has become that
\* value, a placeholder whose name is not in the map is verbatim, and an
\* argument without placeholder changes nothing
C19_TemplateFilling ==
  (probe.fn = "fill" /\ out # NoProbe) => out.str = Filled(probe.text, probe.args)

\* the text contains three backticks in a row
HasFence(s) == \E i \in 1..Len(s) : FenceAt(s, i)

\* C20: cleanMarkdownJson applied to its own result gives that result, and
\* a text without a triple-backtick fence comes back with only its
\* surrounding white space trimmed
C20_StrippingIdempotent ==
  (probe.fn = "cleanMarkdownJson" /\ out # NoProbe) =>
    /\ cleanMarkdownJson(out.str) = out.str
    /\ ~HasFence(probe.rawResponse) => out.str = Trim(probe.rawResponse)

\* session.callTool was invoked in this run and rejected
CallToolRaised == pc = "done" /\ CallsOf("callTool") # {} /\ ~Invoked

\* C21: when session.callTool raises, the run returns a failure string that
\* contains the name of the tool that was being invoked, and the selected
\* server's load is what it was before the run
C21_ToolFailureNamesTool ==
  CallToolRaised =>
    /\ result.kind = "returned"
    /\ StartsWith(result.text, <<"Failed to process query: ">>)
    /\ Includes(result.text, run.toolName.str)
    /\ serverInfo[run.selectedServer].load = before[run.selectedServer].load

\* C22: whatever connectToServer calls (succeeding or failing at connect or
\* at a discovery step) and cleanup have happened, a server name has a
\* capability entry in the registry exactly when it has a session
C22_EntryIffSession == DOMAIN serverInfo = clients

\* C23: for every registered server, each prompt name listed in its prompts
\* has an entry in its promptTemplates; a server for which getPrompt failed
\* is not registered
C23_EveryPromptHasBody ==
  \A n \in DOMAIN serverInfo :
    \A i \in DOMAIN serverInfo[n].prompts :
      serverInfo[n].prompts[i].name \in DOMAIN serverInfo[n].promptTemplates

\* C23 witness: a server that lists a prompt is registered, with the body
\* of that prompt
C23_Witness ==
  /\ DB \in DOMAIN serverInfo
  /\ serverInfo[DB].prompts # << >>
  /\ RUN_QUERY \in DOMAIN serverInfo[DB].promptTemplates

\* C24: in a filled message no placeholder of a name of the extracted map
\* remains, however often the placeholder occurs in the template: each
\* occurrence has been replaced by the value, or by "N/A" for ""
C24_EveryOccurrenceReplaced ==
  (probe.fn = "fill" /\ out # NoProbe) =>
    /\ \A argName \in DOMAIN probe.args.obj : ~Includes(out.str, Placeholder(argName))
    /\ out.str = Filled(probe.text, probe.args)

\* the prompt selectPrompt named is in the selected server's prompt list
\* and has a body
PromptUsable ==
  LET info == serverInfo[run.selectedServer]
  IN  /\ run.selectedPromptName.type = "string"
      /\ \E i \in DOMAIN info.prompts : info.prompts[i].name = run.selectedPromptName.str
      /\ run.selectedPromptName.str \in DOMAIN info.promptTemplates

\* the arguments the usable prompt is filled with
PromptNeedsArguments ==
  LET info == serverInfo[run.selectedServer]
  IN  \E i \in DOMAIN info.prompts :
        info.prompts[i].name = run.selectedPromptName.str /\ Len(info.prompts[i].arguments) > 0

\* selectPromptAndFill yielded a resolved prompt
PromptResolved ==
  /\ PromptUsable
  /\ PromptNeedsArguments => (run.args # Unset /\ ~Falsy(run.args))

\* C25: the message handed to selectTool is the content of the filled
\* messages joined by newlines when the prompt was resolved, and exactly the
\* normalized query otherwise; when the server has no prompts, the model
\* answered "None" or named a prompt that is not listed or has no body, the
\* run goes on to tool selection without an error
C25_EffectiveMessage ==
  LET info == serverInfo[run.selectedServer]
      filled == FilledMessages(info.promptTemplates[run.selectedPromptName.str],
                               IF PromptNeedsArguments THEN run.args ELSE EmptyObj)
      joined == Join([k \in DOMAIN filled |-> filled[k].content], <<"\n">>)
  IN  /\ \A i \in CompletionsFor("selectTool") :
           calls[i].message = (IF PromptResolved THEN joined ELSE CorrectedQuery(run.query))
      /\ (run.selectedPromptName # Unset /\ ~PromptUsable) =>
           /\ CompletionsFor("selectTool") # {}
           /\ run.raised \notin {"selectPrompt", "extractPromptArguments"}

\* C25 witness: selectTool is asked with the two filled messages of the
\* resolved prompt, joined by a newline
C25_Witness ==
  /\ pc = "selectTool"
  /\ PromptResolved
  /\ run.args = JObj(QUERY :> JStr(<<"SELECT 1">>))
  /\ \E i \in CompletionsFor("selectTool") :
       calls[i].message =
         <<"Run ", "SELECT 1", " now", "\n", "[Unsupported content type: ", "image", "]">>

\* the arguments member of the tool call selectTool returned
GivenArguments == Get(JSONParse(cleanMarkdownJson(run.rawResponse.str)).value, <<"arguments">>)

\* the tool call carried at least one argument
CarriedArguments ==
  /\ run.toolName # Unset
  /\ ~Falsy(run.toolName)
  /\ ~Falsy(GivenArguments)
  /\ Keys(GivenArguments) # {}

\* C26: extractToolArguments is called at most once in a run, only when the
\* tool call carried no arguments, for the selected tool and with the
\* normalized query, not the message used for tool selection; when the tool
\* call carried an argument there is no extraction call and the validator
\* gets the carried arguments unchanged
C26_ExtractionOnlyWithoutArguments ==
  /\ Cardinality(CallsOf("extractToolArguments")) <= 1
  /\ \A i \in CallsOf("extractToolArguments") :
       /\ ~CarriedArguments
       /\ run.toolName = JStr(calls[i].tool)
       /\ InCatalog(run.selectedServer, run.toolName)
       /\ calls[i].query = CorrectedQuery(run.query)
       /\ i > 1 /\ calls[i - 1].op = "complete" /\ calls[i - 1].for = "selectTool"
  /\ CarriedArguments =>
       /\ CallsOf("extractToolArguments") = {}
       /\ CompletionsFor("extractToolArguments") = {}
       /\ run.validatedArguments = GivenArguments
       /\ \A i \in CallsOf("validate") : calls[i].arguments = GivenArguments

\* C26 witness: the extraction is asked with the normalized query although
\* tool selection was asked with the filled prompt
C26_Witness ==
  /\ pc = "extractToolArguments"
  /\ \E i \in CallsOf("extractToolArguments") :
       /\ calls[i].query = CorrectedQuery(run.query)
       /\ calls[i - 1].message # calls[i].query
       /\ calls[i].query # run.query

\* the tool-selection response parsed and carries no tool name
NoToolName ==
  /\ run.rawResponse # Unset
  /\ JSONParse(cleanMarkdownJson(run.rawResponse.str)).ok
  /\ Falsy(Get(JSONParse(cleanMarkdownJson(run.rawResponse.str)).value, <<"tool_name">>))

\* C27: when the tool-selection response carries no tool name the run ends
\* by returning "LLM could not determine which tool to use.", without an
\* error raised inside the run and without extractToolArguments, validation
\* or session.callTool
C27_NoToolNameEndsRun ==
  NoToolName =>
    /\ pc = "done"
    /\ result = Returned(<<"LLM could not determine which tool to use.">>)
    /\ CallsOf("extractToolArguments") = {}
    /\ CallsOf("validate") = {}
    /\ CallsOf("callTool") = {}

\* the run selected a registered server that lists no prompts
NoPromptsOnServer ==
  /\ pc # "idle"
  /\ run.selectedServer \in DOMAIN serverInfo
  /\ serverInfo[run.selectedServer].prompts = << >>

\* C28: on a server with zero prompts selectPrompt returns none without a
\* completion: the run makes no completion for prompt selection and none
\* for prompt-argument extraction, and goes straight on to tool selection
C28_NoPromptsNoModelCall ==
  NoPromptsOnServer =>
    /\ CompletionsFor("selectPrompt") = {}
    /\ CompletionsFor("extractPromptArguments") = {}
    /\ getSession(run.selectedServer) =>
         /\ run.selectedPromptName = JNull
         /\ Len(calls) >= 2
         /\ calls[2] = CompleteWith("selectTool", CorrectedQuery(run.query))

\* C28 witness: tool selection is pending on the server without prompts and
\* the only completion before it was the server selection
C28_Witness ==
  /\ pc = "selectTool"
  /\ run.selectedServer = UTIL
  /\ NoPromptsOnServer
  /\ calls = <<Complete("selectServer"), CompleteWith("selectTool", CorrectedQuery(run.query))>>

\* the required list of a tool of a server's catalog
RequiredOf(server, toolName) ==
  serverInfo[server].tools[FindTool(serverInfo[server].tools, toolName)].inputSchema.required

\* C29: in every session.callTool invocation each field of the selected
\* tool's required list is present in the passed arguments with a non-empty
\* value, whether the arguments came from selectTool, from
\* extractToolArguments or from its fallback for an unparsable answer
C29_RequiredPresentAtCall ==
  \A i \in CallsOf("callTool") :
    \A k \in DOMAIN RequiredOf(calls[i].server, calls[i].name) :
      LET field == RequiredOf(calls[i].server, calls[i].name)[k]
      IN  /\ HasKey(calls[i].arguments, field)
          /\ ~IsEmptyString(Get(calls[i].arguments, field))

\* the callTool invocations on a server that returned
ReturnedOn(n) ==
  Cardinality({id \in DOMAIN flights : flights[id].returned /\ flights[id].selectedServer = n})

\* C30: once all the processQuery calls that were in flight together have
\* finished, each server's load is its load before them plus the number of
\* callTool invocations on it that returned, at most 100: no increment is
\* lost
C30_NoLostIncrement ==
  (flights # << >> /\ \A id \in DOMAIN flights : flights[id].pc = "done") =>
    \A n \in DOMAIN serverInfo :
      serverInfo[n].load =
        (IF before[n].load + ReturnedOn(n) <= MaxLoad
         THEN before[n].load + ReturnedOn(n) ELSE MaxLoad)

\* C30 witness: two calls had callTool pending on the same server at the
\* same time, both returned, and the load went from 0 to 2
C30_Witness ==
  /\ flights # << >>
  /\ \A id \in DOMAIN flights : flights[id].pc = "done"
  /\ \E id \in DOMAIN flights : flights[id].overlapped
  /\ ReturnedOn(DB) >= 2
  /\ before[DB].load = 0
  /\ serverInfo[DB].load = ReturnedOn(DB)

====
